---- MODULE Spec2Model ----
(***************************************************************************)
(* Model of the Telegram code-generation bot of src/main.py: the per-user  *)
(* conversation store (user_conversations, _add_to_conversation), the      *)
(* prompt built for the inference call, call_openrouter_api, the response  *)
(* formatter (_format_code_response) and the two message handlers          *)
(* (handle_message, handle_code_request).                                  *)
(*                                                                         *)
(* Texts are sequences of one-character strings, so that slicing, length   *)
(* and substring search are computed as Python computes them.              *)
(***************************************************************************)
EXTENDS Integers, Sequences, FiniteSets, TLC

VARIABLES
    MAX_CONTEXT_MESSAGES,  \* the retention window W (main.py:47)
    user_conversations,    \* dict user_id -> list of turns (main.py:45)
    now,                   \* datetime.now(), counted in appends
    all_turns,             \* per user: every turn ever appended, in order
    pc,                    \* per handler invocation: where it is suspended
    update,                \* per handler invocation: the inbound update
    messages,              \* per handler invocation: the prompt it built
    response,              \* per handler invocation: call_openrouter_api's result
    api_outcome,           \* per handler invocation: what requests.post did
    formatted_response,    \* per handler invocation: the formatted reply
    sent,                  \* per handler invocation: texts it sent to the chat
    render_in,             \* input of a stand-alone _format_code_response call
    render_out             \* its successive results

vars == <<MAX_CONTEXT_MESSAGES, user_conversations, all_turns, now, pc,
          update, messages, response, api_outcome, formatted_response, sent, render_in,
          render_out>>

(***************************************************************************)
(* Bounds of the model.                                                    *)
(***************************************************************************)
\* The window is 10 in the code; the model ranges it over 1..MaxWindow so
\* that the thresholds W and 2W are crossed within a few appends.
MaxWindow == 2

\* Largest limit tried on the slice [-limit:] taken on its own.
MaxLimit == 3

\* Lengths tried around MAX_RESPONSE_LENGTH reach this far beyond the range
\* where wrapping a text carries it over the limit.
MaxSlack == 1

Users == {1, 2}

\* Handler invocations that can be in flight: one under sequential dispatch.
SeqHandlers == {1}
Handlers == {1, 2}

Min(a, b) == IF a < b THEN a ELSE b
Max(a, b) == IF a > b THEN a ELSE b

(***************************************************************************)
(* Python values.                                                          *)
(***************************************************************************)
\* Optional[str]: None is the empty tuple, a string s is <<s>>.
None == << >>
Some(s) == << s >>

\* bool(x) for x an Optional[str]: None and "" are falsy.
Truthy(x) == x # None /\ Len(x[1]) > 0

\* s[-n:] for n >= 0.  Python reads -0 as 0, so s[-0:] is the whole of s.
SliceLast(s, n) ==
    IF n = 0 THEN s
    ELSE IF n >= Len(s) THEN s
    ELSE SubSeq(s, Len(s) - n + 1, Len(s))

\* s[:stop] for any integer stop.
SlicePrefix(s, stop) ==
    IF stop >= 0 THEN SubSeq(s, 1, Min(stop, Len(s)))
    ELSE SubSeq(s, 1, Max(Len(s) + stop, 0))

\* sub in s, for sequences of characters.
Contains(s, sub) ==
    \/ Len(sub) = 0
    \/ \E i \in 1..(Len(s) - Len(sub) + 1) :
           /\ s[i] = sub[1]
           /\ SubSeq(s, i, i + Len(sub) - 1) = sub

\* str.lower() on the characters the model uses.
LowerChar(c) ==
    CASE c = "D" -> "d"
      [] c = "E" -> "e"
      [] c = "F" -> "f"
      [] OTHER -> c

Lower(s) == [i \in 1..Len(s) |-> LowerChar(s[i])]

Repeat(c, n) == [i \in 1..n |-> c]

(***************************************************************************)
(* The conversation store.                                                 *)
(***************************************************************************)
Turn(role, content, timestamp) ==
    [role |-> role, content |-> content, timestamp |-> timestamp]

\* _add_to_conversation with the window reading a front part instead of the
\* recent part.
AddToConversationKeepOldest(convs, user_id, role, content) ==
    LET created == IF user_id \in DOMAIN convs THEN convs
                   ELSE convs @@ (user_id :> << >>)
        appended == [created EXCEPT
                        ![user_id] = Append(@, Turn(role, content, now))]
    IN  IF Len(appended[user_id]) > MAX_CONTEXT_MESSAGES * 2
        THEN [appended EXCEPT ![user_id] = SubSeq(@, 1, MAX_CONTEXT_MESSAGES)]
        ELSE appended

\* _add_to_conversation truncating one append late (>= 2W + 2).
AddToConversationLate(convs, user_id, role, content) ==
    LET created == IF user_id \in DOMAIN convs THEN convs
                   ELSE convs @@ (user_id :> << >>)
        appended == [created EXCEPT
                        ![user_id] = Append(@, Turn(role, content, now))]
    IN  IF Len(appended[user_id]) > MAX_CONTEXT_MESSAGES * 2 + 1
        THEN [appended EXCEPT ![user_id] = SliceLast(@, MAX_CONTEXT_MESSAGES)]
        ELSE appended

\* _add_to_conversation truncating one append early (>= 2W).
AddToConversationEarly(convs, user_id, role, content) ==
    LET created == IF user_id \in DOMAIN convs THEN convs
                   ELSE convs @@ (user_id :> << >>)
        appended == [created EXCEPT
                        ![user_id] = Append(@, Turn(role, content, now))]
    IN  IF Len(appended[user_id]) >= MAX_CONTEXT_MESSAGES * 2
        THEN [appended EXCEPT ![user_id] = SliceLast(@, MAX_CONTEXT_MESSAGES)]
        ELSE appended

\* _add_to_conversation with the length test made before the append.
AddToConversationTruncateFirst(convs, user_id, role, content) ==
    LET created == IF user_id \in DOMAIN convs THEN convs
                   ELSE convs @@ (user_id :> << >>)
        truncated == IF Len(created[user_id]) > MAX_CONTEXT_MESSAGES * 2
                     THEN [created EXCEPT
                              ![user_id] = SliceLast(@, MAX_CONTEXT_MESSAGES)]
                     ELSE created
    IN  [truncated EXCEPT ![user_id] = Append(@, Turn(role, content, now))]

\* _add_to_conversation keeping the first turn of the history and the most
\* recent W - 1 when it truncates.
AddToConversationKeepFirst(convs, user_id, role, content) ==
    LET created == IF user_id \in DOMAIN convs THEN convs
                   ELSE convs @@ (user_id :> << >>)
        appended == [created EXCEPT
                        ![user_id] = Append(@, Turn(role, content, now))]
    IN  IF Len(appended[user_id]) > MAX_CONTEXT_MESSAGES * 2
        THEN [appended EXCEPT
                 ![user_id] = <<@[1]>> \o
                     SubSeq(@, Len(@) - MAX_CONTEXT_MESSAGES + 2, Len(@))]
        ELSE appended

\* _add_to_conversation with every user's entry being one shared list: the
\* turn shows up in all the histories there are.
AddToConversationSharedList(convs, user_id, role, content) ==
    LET created == IF user_id \in DOMAIN convs THEN convs
                   ELSE convs @@ (user_id :> << >>)
        appended == [u \in DOMAIN created |->
                        Append(created[u], Turn(role, content, now))]
    IN  IF Len(appended[user_id]) > MAX_CONTEXT_MESSAGES * 2
        THEN [appended EXCEPT ![user_id] = SliceLast(@, MAX_CONTEXT_MESSAGES)]
        ELSE appended

\* _add_to_conversation: the value of user_conversations after the call.
AddToConversation(convs, user_id, role, content) ==
    LET created == IF user_id \in DOMAIN convs THEN convs
                   ELSE convs @@ (user_id :> << >>)
        appended == [created EXCEPT
                        ![user_id] = Append(@, Turn(role, content, now))]
    IN  IF Len(appended[user_id]) > MAX_CONTEXT_MESSAGES * 2
        THEN [appended EXCEPT ![user_id] = SliceLast(@, MAX_CONTEXT_MESSAGES)]
        ELSE appended

\* Variant: the oldest turns of the history, user_conversations[user_id][:limit].
RecentOldest(convs, user_id, limit) ==
    IF user_id \in DOMAIN convs THEN SlicePrefix(convs[user_id], limit)
    ELSE << >>

\* user_conversations[user_id][-limit:], the recent part of a history; the
\* empty list for a user without a history.
Recent(convs, user_id, limit) ==
    IF user_id \in DOMAIN convs THEN SliceLast(convs[user_id], limit)
    ELSE << >>

(***************************************************************************)
(* The prompt handed to the inference call.                                *)
(***************************************************************************)
\* The system prompt of both handlers (main.py:206-211), abbreviated.
SYSTEM_PROMPT == <<"S", "Y", "S">>

Message(role, content) == [role |-> role, content |-> content]

\* The prompt with the system entry put after the history.
BuildMessagesSystemLast(convs, user_id, window) ==
    LET recent == Recent(convs, user_id, window)
    IN  [i \in 1..Len(recent) |-> [role |-> recent[i].role,
                                    content |-> recent[i].content]]
        \o <<[role |-> "system", content |-> <<"S", "Y", "S">>]>>

\* messages = [system] + one {"role", "content"} entry per recent turn.
BuildMessages(convs, user_id, window) ==
    LET recent == Recent(convs, user_id, window)
    IN  <<Message("system", SYSTEM_PROMPT)>> \o
        [i \in 1..Len(recent) |-> Message(recent[i].role, recent[i].content)]

(***************************************************************************)
(* call_openrouter_api.                                                    *)
(***************************************************************************)
Outcome(kind, status_code, body, content) ==
    [kind |-> kind, status_code |-> status_code, body |-> body,
     content |-> content]

\* What a Python call did: returned value, or raised the named exception.
Returned(value) == [raised |-> "", value |-> value]
Raised(exception) == [raised |-> exception, value |-> None]

\* The body of the try block (main.py:84-121) for one outcome of
\* requests.post.
TryCallOpenrouterApi(o) ==
    IF o.kind # "response" THEN Raised(o.kind)
    ELSE IF o.status_code = 200
    THEN CASE o.body = "not_json"      -> Raised("ValueError")
           [] o.body = "no_choices"    -> Returned(None)
           [] o.body = "empty_choices" -> Returned(None)
           [] o.body = "no_message"    -> Raised("KeyError")
           [] o.body = "no_content"    -> Raised("KeyError")
           [] o.body = "null_content"  -> Raised("TypeError")
           [] OTHER                    -> Returned(Some(o.content))
    ELSE Returned(None)

\* call_openrouter_api without its catch-all "except Exception" clause: only
\* the connection error is turned into None.
CallOpenrouterApiNoCatchAll(o) ==
    LET r == TryCallOpenrouterApi(o)
    IN  IF r.raised = "ConnectionError" THEN Returned(None) ELSE r

\* call_openrouter_api with except clauses that return the error's text
\* ("return str(e)") instead of None.
CallOpenrouterApiReturnsErrorText(o) ==
    LET r == TryCallOpenrouterApi(o)
    IN  IF r.raised = "" THEN r ELSE Returned(Some(<<"e", "r", "r">>))

\* call_openrouter_api: the try block under its two except clauses
\* (main.py:123-128), both of which return None.
CallOpenrouterApi(o) ==
    LET r == TryCallOpenrouterApi(o)
    IN  IF r.raised = "" THEN r
        ELSE IF r.raised = "ConnectionError" THEN Returned(None)
        ELSE Returned(None)

(***************************************************************************)
(* _format_code_response.                                                  *)
(***************************************************************************)
MAX_RESPONSE_LENGTH == 4000

\* "\n\n[...response truncated...]"
TRUNCATION_MARKER ==
    <<"\n", "\n", "[", ".", ".", ".", "r", "e", "s", "p", "o", "n", "s", "e",
      " ", "t", "r", "u", "n", "c", "a", "t", "e", "d", ".", ".", ".", "]">>

\* The backquote character, which a string of this module cannot hold.
BQ == "bq"

\* The code-fence delimiter: three backquotes.
FENCE == <<BQ, BQ, BQ>>

\* The fence opening a python block (with its newline) and the closing one.
CODE_OPEN == <<BQ, BQ, BQ, "p", "y", "t", "h", "o", "n", "\n">>
CODE_CLOSE == <<"\n", BQ, BQ, BQ>>

\* "def ", "class ", "import ", "function"
KEYWORDS ==
    { <<"d", "e", "f", " ">>,
      <<"c", "l", "a", "s", "s", " ">>,
      <<"i", "m", "p", "o", "r", "t", " ">>,
      <<"f", "u", "n", "c", "t", "i", "o", "n">> }

\* The truncation cutting at MAX_RESPONSE_LENGTH, with no room left for the
\* marker.
TruncateResponseNoMargin(text) ==
    IF Len(text) > MAX_RESPONSE_LENGTH
    THEN SlicePrefix(text, MAX_RESPONSE_LENGTH) \o TRUNCATION_MARKER
    ELSE text

\* The truncation taken already at len(text) == MAX_RESPONSE_LENGTH.
TruncateResponseAtLimit(text) ==
    IF Len(text) >= MAX_RESPONSE_LENGTH
    THEN SlicePrefix(text, MAX_RESPONSE_LENGTH - 100) \o TRUNCATION_MARKER
    ELSE text

\* response[: MAX_RESPONSE_LENGTH - 100] + marker when the text is too long.
TruncateResponse(text) ==
    IF Len(text) > MAX_RESPONSE_LENGTH
    THEN SlicePrefix(text, MAX_RESPONSE_LENGTH - 100) \o TRUNCATION_MARKER
    ELSE text

\* The code-block heuristic of main.py:136.
LooksLikeCode(text) ==
    LET lowered == Lower(text)
    IN  /\ ~Contains(text, FENCE)
        /\ \E keyword \in KEYWORDS : Contains(lowered, keyword)

WrapCode(text) ==
    IF LooksLikeCode(text) THEN CODE_OPEN \o text \o CODE_CLOSE ELSE text

FormatCodeResponse(text) == WrapCode(TruncateResponse(text))

(***************************************************************************)
(* Inputs: inbound texts and what the OpenRouter request can do.           *)
(***************************************************************************)
\* What each user types.
TextsOf(user_id) ==
    IF user_id = 1 THEN { <<"h", "i">>, <<"D", "E", "F", " ", "x">> }
    ELSE { <<"y", "o">> }

\* A completion the model returns: it holds a keyword, so that formatting it
\* changes it.
REPLIES == { <<"d", "e", "f", " ", "f">> }

ApiOutcomes ==
    { Outcome(k, 0, "", << >>) : k \in {"ConnectionError", "Timeout", "Exception"} }
    \cup { Outcome("response", s, "", << >>) : s \in {401, 500} }
    \cup { Outcome("response", 200, b, << >>) :
             b \in {"not_json", "no_choices", "empty_choices", "no_message",
                    "no_content", "null_content"} }
    \cup { Outcome("response", 200, "ok", c) : c \in REPLIES \cup { << >> } }

NoUpdate == [handler |-> "", user_id |-> 0, text |-> << >>]
NoOutcome == Outcome("", 0, "", << >>)

\* The notice of main.py:287-290, abbreviated.
FAILURE_NOTICE == <<"E", "R", "R">>

Outbound(text, parse_mode) == [text |-> text, parse_mode |-> parse_mode]

(***************************************************************************)
(* The handlers.  handle_message and handle_code_request run the same      *)
(* steps; each await is a point where the invocation is suspended.         *)
(***************************************************************************)
\* Up to the first await (main.py:244-253, 191-200): the user's turn is
\* stored, then the typing indicator is awaited.
HandlerStart(h, name, user_id, text) ==
    /\ pc[h] = "idle"
    /\ now <= 2 * MAX_CONTEXT_MESSAGES + 1
    /\ user_conversations' =
           AddToConversation(user_conversations, user_id, "user", text)
    /\ all_turns' = [all_turns EXCEPT
                        ![user_id] = Append(@, Turn("user", text, now))]
    /\ now' = now + 1
    /\ pc' = [pc EXCEPT ![h] = "typing"]
    /\ update' = [update EXCEPT
                     ![h] = [handler |-> name, user_id |-> user_id, text |-> text]]
    /\ UNCHANGED <<MAX_CONTEXT_MESSAGES, messages, response, api_outcome,
                   formatted_response, sent, render_in, render_out>>

HandleMessage(h, user_id, text) ==
    HandlerStart(h, "handle_message", user_id, text)

HandleCodeRequest(h, user_id, text) ==
    HandlerStart(h, "handle_code_request", user_id, text)

\* The same step with the reply formatted first and the formatted text stored
\* as the assistant's turn.
CallApiStoresFormatted(h, o) ==
    LET user_id == update[h].user_id
        built == BuildMessages(user_conversations, user_id, MAX_CONTEXT_MESSAGES)
        r == CallOpenrouterApi(o)
    IN  /\ pc[h] = "typing"
        /\ messages' = [messages EXCEPT ![h] = built]
        /\ api_outcome' = [api_outcome EXCEPT ![h] = o]
        /\ IF r.raised # ""
           THEN /\ pc' = [pc EXCEPT ![h] = "raised"]
                /\ UNCHANGED <<user_conversations, all_turns, now, response,
                               formatted_response>>
           ELSE IF Truthy(r.value)
           THEN /\ user_conversations' =
                       AddToConversation(user_conversations, user_id,
                                         "assistant",
                                         FormatCodeResponse(r.value[1]))
                /\ all_turns' =
                       [all_turns EXCEPT
                           ![user_id] =
                               Append(@, Turn("assistant", r.value[1], now))]
                /\ now' = now + 1
                /\ response' = [response EXCEPT ![h] = r.value]
                /\ formatted_response' =
                       [formatted_response EXCEPT
                           ![h] = FormatCodeResponse(r.value[1])]
                /\ pc' = [pc EXCEPT ![h] = "reply"]
           ELSE /\ response' = [response EXCEPT ![h] = r.value]
                /\ pc' = [pc EXCEPT ![h] = "notice"]
                /\ UNCHANGED <<user_conversations, all_turns, now,
                               formatted_response>>
        /\ UNCHANGED <<MAX_CONTEXT_MESSAGES, update, sent, render_in,
                       render_out>>

\* From the first await to the next (main.py:255-283, 202-230): the prompt is
\* built, the API is called (a blocking call), and on a reply the assistant's
\* turn is stored and the reply formatted.
CallApi(h, o) ==
    LET user_id == update[h].user_id
        built == BuildMessages(user_conversations, user_id, MAX_CONTEXT_MESSAGES)
        r == CallOpenrouterApi(o)
    IN  /\ pc[h] = "typing"
        /\ messages' = [messages EXCEPT ![h] = built]
        /\ api_outcome' = [api_outcome EXCEPT ![h] = o]
        /\ IF r.raised # ""
           THEN /\ pc' = [pc EXCEPT ![h] = "raised"]
                /\ UNCHANGED <<user_conversations, all_turns, now, response,
                               formatted_response>>
           ELSE IF Truthy(r.value)
           THEN /\ user_conversations' =
                       AddToConversation(user_conversations, user_id,
                                         "assistant", r.value[1])
                /\ all_turns' =
                       [all_turns EXCEPT
                           ![user_id] =
                               Append(@, Turn("assistant", r.value[1], now))]
                /\ now' = now + 1
                /\ response' = [response EXCEPT ![h] = r.value]
                /\ formatted_response' =
                       [formatted_response EXCEPT
                           ![h] = FormatCodeResponse(r.value[1])]
                /\ pc' = [pc EXCEPT ![h] = "reply"]
           ELSE /\ response' = [response EXCEPT ![h] = r.value]
                /\ pc' = [pc EXCEPT ![h] = "notice"]
                /\ UNCHANGED <<user_conversations, all_turns, now,
                               formatted_response>>
        /\ UNCHANGED <<MAX_CONTEXT_MESSAGES, update, sent, render_in,
                       render_out>>

\* reply_text(formatted_response, parse_mode="Markdown") went through.
SendReply(h) ==
    /\ pc[h] = "reply"
    /\ sent' = [sent EXCEPT
                   ![h] = Append(@, Outbound(formatted_response[h], "Markdown"))]
    /\ pc' = [pc EXCEPT ![h] = "done"]
    /\ UNCHANGED <<MAX_CONTEXT_MESSAGES, user_conversations, all_turns,
                   now, update,
                   messages, response, api_outcome, formatted_response,
                   render_in, render_out>>

\* reply_text(the failure notice) went through.
SendNotice(h) ==
    /\ pc[h] = "notice"
    /\ sent' = [sent EXCEPT ![h] = Append(@, Outbound(FAILURE_NOTICE, ""))]
    /\ pc' = [pc EXCEPT ![h] = "done"]
    /\ UNCHANGED <<MAX_CONTEXT_MESSAGES, user_conversations, all_turns,
                   now, update,
                   messages, response, api_outcome, formatted_response,
                   render_in, render_out>>

\* An awaited Telegram call (send_action, reply_text) raised: the exception
\* leaves the handler, which does nothing more.
TelegramRaises(h) ==
    /\ pc[h] \in {"typing", "reply", "notice"}
    /\ pc' = [pc EXCEPT ![h] = "raised"]
    /\ UNCHANGED <<MAX_CONTEXT_MESSAGES, user_conversations, all_turns,
                   now, update,
                   messages, response, api_outcome, formatted_response, sent,
                   render_in, render_out>>

\* The invocation is over and its locals are gone.
Return(h) ==
    /\ pc[h] \in {"done", "raised"}
    /\ pc' = [pc EXCEPT ![h] = "idle"]
    /\ update' = [update EXCEPT ![h] = NoUpdate]
    /\ messages' = [messages EXCEPT ![h] = << >>]
    /\ response' = [response EXCEPT ![h] = None]
    /\ api_outcome' = [api_outcome EXCEPT ![h] = NoOutcome]
    /\ formatted_response' = [formatted_response EXCEPT ![h] = << >>]
    /\ sent' = [sent EXCEPT ![h] = << >>]
    /\ UNCHANGED <<MAX_CONTEXT_MESSAGES, user_conversations, all_turns,
                   now, render_in,
                   render_out>>

(***************************************************************************)
(* The bot under sequential dispatch: Application.builder() is left with   *)
(* its default, so an update is handled to its end before the next one is  *)
(* taken (main.py:310, 341).                                               *)
(***************************************************************************)
Init ==
    /\ MAX_CONTEXT_MESSAGES \in 1..MaxWindow
    /\ user_conversations = << >>
    /\ all_turns = [u \in Users |-> << >>]
    /\ now = 0
    /\ pc = [h \in Handlers |-> "idle"]
    /\ update = [h \in Handlers |-> NoUpdate]
    /\ messages = [h \in Handlers |-> << >>]
    /\ response = [h \in Handlers |-> None]
    /\ api_outcome = [h \in Handlers |-> NoOutcome]
    /\ formatted_response = [h \in Handlers |-> << >>]
    /\ sent = [h \in Handlers |-> << >>]
    /\ render_in = << >>
    /\ render_out = << >>

Next ==
    \E h \in SeqHandlers :
        \/ \E user_id \in Users : \E text \in TextsOf(user_id) :
               HandleMessage(h, user_id, text)
        \/ \E user_id \in Users : \E text \in TextsOf(user_id) :
               HandleCodeRequest(h, user_id, text)
        \/ \E o \in ApiOutcomes : CallApi(h, o)
        \/ SendReply(h)
        \/ SendNotice(h)
        \/ TelegramRaises(h)
        \/ Return(h)

Spec == Init /\ [][Next]_vars

(***************************************************************************)
(* The handlers when updates are dispatched concurrently: an invocation    *)
(* may start while another one, for the same user, is suspended at an      *)
(* await.  Between two awaits an invocation runs alone (one event loop).   *)
(***************************************************************************)
\* The inputs are kept few: one user, one text, a reply and a failure.
ConcurrentUsers == {1}
ConcurrentTexts == { <<"h", "i">> }
ConcurrentOutcomes ==
    { o \in ApiOutcomes : o.kind = "Timeout" \/ (o.body = "ok" /\ o.content # << >>) }

NextConcurrent ==
    \E h \in Handlers :
        \/ \E user_id \in ConcurrentUsers : \E text \in ConcurrentTexts :
               HandleMessage(h, user_id, text)
        \/ \E user_id \in ConcurrentUsers : \E text \in ConcurrentTexts :
               HandleCodeRequest(h, user_id, text)
        \/ \E o \in ConcurrentOutcomes : CallApi(h, o)
        \/ SendReply(h)
        \/ SendNotice(h)
        \/ TelegramRaises(h)
        \/ Return(h)

SpecConcurrent == Init /\ [][NextConcurrent]_vars

(***************************************************************************)
(* _format_code_response on its own: a text is formatted, and the result   *)
(* formatted again.                                                        *)
(***************************************************************************)
\* base with piece written over it from position pos on, when it fits.
Overlay(base, pos, piece) ==
    IF pos >= 1 /\ pos + Len(piece) - 1 <= Len(base)
    THEN [i \in 1..Len(base) |->
             IF i >= pos /\ i < pos + Len(piece) THEN piece[i - pos + 1]
             ELSE base[i]]
    ELSE base

\* Lengths of the texts tried: short ones, those around the limit (from
\* where the 14 characters of a code block carry a text over it), long ones.
RenderLengths ==
    {0, 1, 4, 12}
    \cup ((MAX_RESPONSE_LENGTH - 14 - MaxSlack)..(MAX_RESPONSE_LENGTH + MaxSlack))
    \cup {MAX_RESPONSE_LENGTH + 100, MAX_RESPONSE_LENGTH + 1000}

\* What a text may hold beside its filling: nothing, or a keyword.
RenderWords == { << >>, <<"D", "E", "F", " ">> } \cup KEYWORDS

\* Where it holds it: at the start, across the cut of a truncation, at the end.
RenderPlaces(n, piece) ==
    IF Len(piece) = 0 THEN {0}
    ELSE {1, MAX_RESPONSE_LENGTH - 100 - 1, n - Len(piece) + 1}

RenderFences == { << >>, FENCE }

\* A text of n characters with a word and a fence written into its filling.
RenderText(n, word, kp, fence, fp) ==
    Overlay(Overlay(Repeat("x", n), kp, word), fp, fence)

InitRender ==
    /\ MAX_CONTEXT_MESSAGES = 1
    /\ user_conversations = << >>
    /\ all_turns = [u \in Users |-> << >>]
    /\ now = 0
    /\ pc = [h \in Handlers |-> "idle"]
    /\ update = [h \in Handlers |-> NoUpdate]
    /\ messages = [h \in Handlers |-> << >>]
    /\ response = [h \in Handlers |-> None]
    /\ api_outcome = [h \in Handlers |-> NoOutcome]
    /\ formatted_response = [h \in Handlers |-> << >>]
    /\ sent = [h \in Handlers |-> << >>]
    /\ \E n \in RenderLengths, word \in RenderWords, fence \in RenderFences :
           \E kp \in RenderPlaces(n, word), fp \in RenderPlaces(n, fence) :
               render_in = RenderText(n, word, kp, fence, fp)
    /\ render_out = << >>

\* formatted = _format_code_response(text)
FormatOnce ==
    /\ render_out = << >>
    /\ render_out' = <<FormatCodeResponse(render_in)>>
    /\ UNCHANGED <<MAX_CONTEXT_MESSAGES, user_conversations, all_turns,
                   now, pc, update,
                   messages, response, api_outcome, formatted_response, sent,
                   render_in>>

\* _format_code_response(formatted)
FormatAgain ==
    /\ Len(render_out) = 1
    /\ render_out' = Append(render_out, FormatCodeResponse(render_out[1]))
    /\ UNCHANGED <<MAX_CONTEXT_MESSAGES, user_conversations, all_turns,
                   now, pc, update,
                   messages, response, api_outcome, formatted_response, sent,
                   render_in>>

NextRender == FormatOnce \/ FormatAgain

SpecRender == InitRender /\ [][NextRender]_vars

(***************************************************************************)
(* Vocabulary of the properties.                                           *)
(***************************************************************************)
W == MAX_CONTEXT_MESSAGES

\* The stored history of a user, empty when the user has none.
HistoryOf(user_id) ==
    IF user_id \in DOMAIN user_conversations
    THEN user_conversations[user_id] ELSE << >>

\* This step is handler h appending a turn to user_id's history.
AppendsTo(h, user_id) ==
    /\ now' = now + 1
    /\ pc'[h] # pc[h]
    /\ update'[h].user_id = user_id

\* The request did not produce a completion text.
FailureOutcome(o) ==
    \/ o.kind # "response"
    \/ o.status_code # 200
    \/ o.body # "ok"

\* This step is handler h's call of the API, with outcome o.
CallsApi(h) == pc[h] = "typing" /\ api_outcome'[h] # NoOutcome

(***************************************************************************)
(* C1.  After every append, for every user, the stored history holds at    *)
(* most 2W turns.                                                          *)
(***************************************************************************)
C1_LengthAtMostTwiceWindow ==
    \A user_id \in DOMAIN user_conversations :
        Len(user_conversations[user_id]) <= 2 * W

\* A history filled to exactly 2W turns at the largest window, beside another
\* user's history.
C1_Witness ==
    /\ W = MaxWindow
    /\ \E u \in DOMAIN user_conversations :
           /\ Len(user_conversations[u]) = 2 * W
           /\ DOMAIN user_conversations # {u}

(***************************************************************************)
(* C2.  An append that brings a history to 2W+1 turns leaves it with W     *)
(* turns: the last W of the sequence before truncation, the new turn       *)
(* last, in the same order.                                                *)
(***************************************************************************)
C2_TruncationKeepsLastWindow ==
    [][\A h \in Handlers : \A u \in Users :
          (AppendsTo(h, u) /\ Len(HistoryOf(u)) = 2 * W) =>
              LET before == user_conversations[u]
                  after == user_conversations'[u]
              IN  /\ Len(after) = W
                  /\ \A i \in 1..(W - 1) : after[i] = before[W + 1 + i]
                  /\ after[W].timestamp = now
                  /\ \A i \in 1..Len(before) : before[i].timestamp < now]_vars

\* Only one user has written, 2W+1 turns were appended at the largest
\* window, and W are stored: the truncation has just happened.
C2_Witness ==
    /\ W = MaxWindow
    /\ now = 2 * W + 1
    /\ \E u \in Users :
           /\ DOMAIN user_conversations = {u}
           /\ Len(user_conversations[u]) = W

(***************************************************************************)
(* C3.  An append whose result holds at most 2W turns discards nothing:    *)
(* the history after it is the history before it with the new turn added   *)
(* at the end.  A step that appends nothing leaves every history as it is. *)
(***************************************************************************)
C3_NoTruncationUpToTwiceWindow ==
    [][/\ \A h \in Handlers : \A u \in Users :
              (AppendsTo(h, u) /\ Len(HistoryOf(u)) + 1 <= 2 * W) =>
                  LET before == HistoryOf(u)
                      after == user_conversations'[u]
                  IN  /\ Len(after) = Len(before) + 1
                      /\ SubSeq(after, 1, Len(before)) = before
                      /\ after[Len(after)].timestamp = now
       /\ now' = now => user_conversations' = user_conversations]_vars

\* Only one user has written and all of the 2W turns appended are stored.
C3_Witness ==
    /\ W = MaxWindow
    /\ now = 2 * W
    /\ \E u \in Users :
           /\ DOMAIN user_conversations = {u}
           /\ Len(user_conversations[u]) = 2 * W
           /\ user_conversations[u][1].timestamp = 0

(***************************************************************************)
(* C4.  For every user and every limit >= 0, the slice [-limit:] of the    *)
(* stored history has exactly min(limit, stored count) turns, the last     *)
(* ones of the history in their order; it is empty for a user without a    *)
(* history.                                                                *)
(***************************************************************************)
C4_RecentReturnsMinLimitTurns ==
    \A user_id \in Users : \A limit \in 0..MaxLimit :
        LET history == HistoryOf(user_id)
            recent == Recent(user_conversations, user_id, limit)
            k == Min(limit, Len(history))
        IN  /\ Len(recent) = k
            /\ \A i \in 1..Len(recent) :
                   Len(recent) <= Len(history) =>
                       recent[i] = history[Len(history) - Len(recent) + i]

(***************************************************************************)
(* C5.  With a window of 0 the prompt built for a user holds the system    *)
(* entry alone, whatever the user's history is.                            *)
(***************************************************************************)
C5_WindowZeroOnlySystemTurn ==
    \A user_id \in Users :
        BuildMessages(user_conversations, user_id, 0) =
            <<[role |-> "system", content |-> SYSTEM_PROMPT]>>

(***************************************************************************)
(* C6.  The prompt a handler builds starts with the system entry (role     *)
(* system, content the system prompt) and goes on with the last            *)
(* min(W, stored count) turns of the user's history as it is when the      *)
(* prompt is built, role and content unchanged, in the same order; the     *)
(* prompt of a user without a history is the system entry alone.           *)
(***************************************************************************)
ExpectedPrompt(prompt, history) ==
    LET k == Min(W, Len(history))
    IN  /\ Len(prompt) = 1 + k
        /\ prompt[1].role = "system"
        /\ prompt[1].content = SYSTEM_PROMPT
        /\ \A i \in 1..k :
               /\ prompt[1 + i].role = history[Len(history) - k + i].role
               /\ prompt[1 + i].content = history[Len(history) - k + i].content

C6_PromptIsSystemThenRecent ==
    [][/\ \A h \in Handlers :
              CallsApi(h) =>
                  ExpectedPrompt(messages'[h], HistoryOf(update[h].user_id))
       /\ \A user_id \in Users :
              ExpectedPrompt(BuildMessages(user_conversations, user_id, W),
                             HistoryOf(user_id))]_vars

\* A prompt was built from a history longer than the window, while another
\* user has no history at all.
C6_Witness ==
    \E h \in Handlers :
        /\ pc[h] = "notice"
        /\ Len(messages[h]) = 1 + W
        /\ Len(HistoryOf(update[h].user_id)) > W
        /\ DOMAIN user_conversations # Users

(***************************************************************************)
(* C7.  When the API call gives no reply, the handler appends no           *)
(* assistant turn: from the call to the end of the handler the histories   *)
(* stay as they were once the user's turn was stored.                      *)
(***************************************************************************)
C7_NoAssistantTurnOnFailure ==
    [][\A h \in Handlers :
          /\ (CallsApi(h) /\ FailureOutcome(api_outcome'[h])) =>
                 user_conversations' = user_conversations
          /\ (pc[h] = "notice" /\ pc'[h] # pc[h]) =>
                 user_conversations' = user_conversations]_vars

\* A handler ended after a failed call: the notice is sent and the last
\* stored turn is the user's message.
C7_Witness ==
    \E h \in Handlers :
        LET history == HistoryOf(update[h].user_id)
        IN  /\ pc[h] = "done"
            /\ api_outcome[h].kind = "Timeout"
            /\ Len(history) > 1
            /\ history[Len(history)].role = "user"
            /\ history[Len(history)].content = update[h].text

(***************************************************************************)
(* C8.  Whatever way the request fails (an exception of any kind, a status *)
(* other than 200, a 200 reply without the expected fields),               *)
(* call_openrouter_api returns None and raises nothing, and the handler    *)
(* goes on to send the failure notice, and nothing else.                   *)
(***************************************************************************)
C8_FailuresBecomeNoneAndNotice ==
    [][\A h \in Handlers :
          /\ (CallsApi(h) /\ FailureOutcome(api_outcome'[h])) =>
                 /\ response'[h] = None
                 /\ pc'[h] = "notice"
                 /\ sent'[h] = << >>
          /\ (pc[h] = "notice" /\ pc'[h] = "done") =>
                 sent'[h] = <<Outbound(FAILURE_NOTICE, "")>>]_vars

\* A 200 reply whose message lacks its content ended in the notice.
C8_Witness ==
    \E h \in Handlers :
        /\ pc[h] = "done"
        /\ api_outcome[h].body = "no_content"
        /\ response[h] = None
        /\ sent[h] = <<Outbound(FAILURE_NOTICE, "")>>

(***************************************************************************)
(* C9.  As claimed: a text no longer than MAX_RESPONSE_LENGTH is returned  *)
(* unchanged by _format_code_response.                                     *)
(***************************************************************************)
C9_ShortTextUnchanged ==
    (render_out # << >> /\ Len(render_in) <= MAX_RESPONSE_LENGTH) =>
        render_out[1] = render_in

\* The texts the code-block heuristic leaves alone: those holding a fence
\* and those with no keyword in their lowercase form.
HoldsFence(text) == Contains(text, FENCE)
HoldsKeyword(text) == \E keyword \in KEYWORDS : Contains(Lower(text), keyword)

(***************************************************************************)
(* C9, amended.  A text no longer than MAX_RESPONSE_LENGTH that holds a    *)
(* code fence, or none of the keywords in its lowercase form, is returned  *)
(* unchanged, with no marker appended; the empty text is returned empty.   *)
(* Any other text no longer than MAX_RESPONSE_LENGTH is returned whole     *)
(* inside a python code block.                                             *)
(***************************************************************************)
C9_ShortTextUnchangedUnlessCode ==
    (render_out # << >> /\ Len(render_in) <= MAX_RESPONSE_LENGTH) =>
        /\ (HoldsFence(render_in) \/ ~HoldsKeyword(render_in)) =>
               render_out[1] = render_in
        /\ (~HoldsFence(render_in) /\ HoldsKeyword(render_in)) =>
               render_out[1] = CODE_OPEN \o render_in \o CODE_CLOSE
        /\ render_in = << >> => render_out[1] = << >>

\* A text of exactly MAX_RESPONSE_LENGTH characters, with a keyword and a
\* fence, came back as it was.
C9_Witness ==
    /\ render_out # << >>
    /\ Len(render_in) = MAX_RESPONSE_LENGTH
    /\ HoldsFence(render_in)
    /\ HoldsKeyword(render_in)
    /\ render_out[1] = render_in

(***************************************************************************)
(* C10.  _format_code_response is idempotent: formatting a formatted text  *)
(* gives the same text again.                                              *)
(***************************************************************************)
C10_RenderIdempotent ==
    Len(render_out) = 2 => render_out[2] = render_out[1]

\* The last n elements of a sequence that has at least n.
Tail_n(s, n) == SubSeq(s, Len(s) - n + 1, Len(s))

\* The first MAX_RESPONSE_LENGTH - 100 characters of a text longer than that.
KeptPrefix(text) == SubSeq(text, 1, MAX_RESPONSE_LENGTH - 100)

(***************************************************************************)
(* C11.  As claimed: for a text longer than MAX_RESPONSE_LENGTH the result *)
(* is no longer than MAX_RESPONSE_LENGTH, ends with the marker, and what   *)
(* precedes the marker is the first MAX_RESPONSE_LENGTH - 100 characters   *)
(* of the text.                                                            *)
(***************************************************************************)
C11_LongTextCutAndMarked ==
    (render_out # << >> /\ Len(render_in) > MAX_RESPONSE_LENGTH) =>
        LET out == render_out[1]
        IN  /\ Len(out) <= MAX_RESPONSE_LENGTH
            /\ Len(out) >= Len(TRUNCATION_MARKER)
            /\ Tail_n(out, Len(TRUNCATION_MARKER)) = TRUNCATION_MARKER
            /\ SubSeq(out, 1, Len(out) - Len(TRUNCATION_MARKER)) =
                   KeptPrefix(render_in)

(***************************************************************************)
(* C11, amended.  For a text longer than MAX_RESPONSE_LENGTH the result is *)
(* no longer than MAX_RESPONSE_LENGTH and is the first                     *)
(* MAX_RESPONSE_LENGTH - 100 characters of the text followed by the        *)
(* marker; when that cut text holds no code fence and a keyword in its     *)
(* lowercase form, it is returned inside a python code block, so that the  *)
(* result ends with the closing fence and not with the marker.             *)
(***************************************************************************)
C11_LongTextCutMarkedMaybeWrapped ==
    (render_out # << >> /\ Len(render_in) > MAX_RESPONSE_LENGTH) =>
        LET out == render_out[1]
            cut == KeptPrefix(render_in) \o TRUNCATION_MARKER
        IN  /\ Len(out) <= MAX_RESPONSE_LENGTH
            /\ (HoldsFence(cut) \/ ~HoldsKeyword(cut)) => out = cut
            /\ (~HoldsFence(cut) /\ HoldsKeyword(cut)) =>
                   out = CODE_OPEN \o cut \o CODE_CLOSE

\* A long text whose only keyword lies beyond the cut came back as its first
\* MAX_RESPONSE_LENGTH - 100 characters and the marker.
C11_Witness ==
    /\ render_out # << >>
    /\ Len(render_in) > MAX_RESPONSE_LENGTH
    /\ HoldsKeyword(render_in)
    /\ ~HoldsFence(render_in)
    /\ render_out[1] = KeptPrefix(render_in) \o TRUNCATION_MARKER

(***************************************************************************)
(* C12.  An append for a user, truncating or not, leaves the history of    *)
(* every other user as it is, and the set of users with a history changes  *)
(* by that user alone.                                                     *)
(***************************************************************************)
C12_OtherUsersUntouched ==
    [][\A h \in Handlers : \A u \in Users :
          AppendsTo(h, u) =>
              /\ DOMAIN user_conversations' = DOMAIN user_conversations \cup {u}
              /\ \A v \in DOMAIN user_conversations \ {u} :
                     user_conversations'[v] = user_conversations[v]]_vars

\* Both users have a history, and one of them has just been truncated: of
\* the 2W+2 turns appended, the other user holds one and this one holds W.
C12_Witness ==
    /\ W = MaxWindow
    /\ now = 2 * W + 2
    /\ \E u \in Users : \E v \in Users \ {u} :
           /\ DOMAIN user_conversations = {u, v}
           /\ Len(user_conversations[v]) = 1
           /\ Len(user_conversations[u]) = W
           /\ user_conversations[u][W].timestamp = now - 1

\* The last stored turn of the user a handler works for.
LastTurnOf(h) ==
    LET history == HistoryOf(update[h].user_id)
    IN  history[Len(history)]

(***************************************************************************)
(* C13.  A handler stores the user's turn, then builds the prompt, then    *)
(* calls the API, and only on a reply stores the assistant's turn with the *)
(* reply as received, formats it and sends it.  So: until the call has     *)
(* returned, the last stored turn is the user's message and no prompt,     *)
(* reply or outbound text exists; the prompt ends with the user's message  *)
(* and not with the reply; once there is a reply the last stored turn is   *)
(* the assistant's with the unformatted reply; nothing is sent while the   *)
(* handler is still before its send; and what is sent is the formatted     *)
(* reply, after the turn is stored.  Without a reply no assistant turn is  *)
(* stored.                                                                 *)
(***************************************************************************)
C13_HandlerStepsInOrder ==
    \A h \in SeqHandlers :
        /\ pc[h] = "typing" =>
               /\ api_outcome[h] = NoOutcome
               /\ messages[h] = << >>
               /\ response[h] = None
               /\ formatted_response[h] = << >>
               /\ sent[h] = << >>
               /\ LastTurnOf(h).role = "user"
               /\ LastTurnOf(h).content = update[h].text
        /\ pc[h] \in {"reply", "notice", "done"} =>
               /\ api_outcome[h] # NoOutcome
               /\ messages[h][Len(messages[h])].role = "user"
               /\ messages[h][Len(messages[h])].content = update[h].text
        /\ pc[h] \in {"reply", "notice"} => sent[h] = << >>
        /\ (pc[h] \in {"reply", "done"} /\ Truthy(response[h])) =>
               /\ api_outcome[h].content = response[h][1]
               /\ LastTurnOf(h).role = "assistant"
               /\ LastTurnOf(h).content = response[h][1]
               /\ formatted_response[h] = FormatCodeResponse(response[h][1])
        /\ (pc[h] = "done" /\ Truthy(response[h])) =>
               sent[h] = <<Outbound(formatted_response[h], "Markdown")>>
        /\ (pc[h] \in {"notice", "done"} /\ ~Truthy(response[h])) =>
               /\ LastTurnOf(h).role = "user"
               /\ LastTurnOf(h).content = update[h].text
        /\ pc[h] = "reply" => Truthy(response[h])
        /\ pc[h] = "notice" => ~Truthy(response[h])

\* A handler ended after a reply: the stored turn holds the reply as
\* received, and the text sent is its formatted form, which differs.
C13_Witness ==
    \E h \in SeqHandlers :
        /\ pc[h] = "done"
        /\ Truthy(response[h])
        /\ LastTurnOf(h).role = "assistant"
        /\ LastTurnOf(h).content = response[h][1]
        /\ sent[h] = <<Outbound(FormatCodeResponse(response[h][1]), "Markdown")>>
        /\ sent[h][1].text # response[h][1]

(***************************************************************************)
(* C14.  At every moment the stored history of a user is a contiguous      *)
(* suffix, in the same order, of the sequence of all the turns ever        *)
(* appended for that user; a user has a history from the first append on,  *)
(* and it is never removed nor emptied.                                    *)
(***************************************************************************)
C14_HistoryIsSuffixOfAllTurns ==
    \A u \in Users :
        LET full == all_turns[u]
            history == HistoryOf(u)
        IN  /\ Len(history) <= Len(full)
            /\ history = SubSeq(full, Len(full) - Len(history) + 1, Len(full))
            /\ u \in DOMAIN user_conversations <=> full # << >>
            /\ full # << >> => history # << >>

\* A history truncated at the largest window: W turns stored out of the
\* 2W+1 appended for the user.
C14_Witness ==
    \E u \in Users :
        /\ W = MaxWindow
        /\ Len(all_turns[u]) = 2 * W + 1
        /\ Len(HistoryOf(u)) = W
        /\ HistoryOf(u)[1] = all_turns[u][W + 2]

(***************************************************************************)
(* C15.  When invocations for the same user interleave at their awaits,    *)
(* every append still leaves every history with at most 2W turns, and the  *)
(* turn just appended is there, last, with its role and content: the       *)
(* append and the truncation run with no await between them.               *)
(***************************************************************************)
C15_InterleavedAppendsKeepBound ==
    [][\A h \in Handlers : \A u \in Users :
          AppendsTo(h, u) =>
              LET after == user_conversations'[u]
                  new == after[Len(after)]
              IN  /\ \A v \in DOMAIN user_conversations' :
                         Len(user_conversations'[v]) <= 2 * W
                  /\ Len(after) >= 1
                  /\ new.timestamp = now
                  /\ pc[h] = "idle" =>
                         new.role = "user" /\ new.content = update'[h].text
                  /\ pc[h] = "typing" =>
                         /\ new.role = "assistant"
                         /\ new.content = response'[h][1]]_vars

\* Two invocations for the same user are in flight, one suspended after
\* storing its message, when the other's reply makes the history overflow
\* and truncates it to W turns.
C15_Witness ==
    \E h \in Handlers : \E k \in Handlers \ {h} :
        /\ W = MaxWindow
        /\ update[h].user_id = update[k].user_id
        /\ pc[h] = "reply"
        /\ pc[k] = "typing"
        /\ Len(all_turns[update[h].user_id]) = 2 * W + 1
        /\ Len(HistoryOf(update[h].user_id)) = W
        /\ LastTurnOf(h).content = response[h][1]

(***************************************************************************)
(* C16.  With one invocation at a time and a window of at least 1, the     *)
(* prompt handed to the API call for an inbound message ends with an       *)
(* entry of role user whose content is that message, whatever the history  *)
(* was before, also when storing the message truncated the history.        *)
(***************************************************************************)
C16_PromptEndsWithInboundMessage ==
    [][\A h \in SeqHandlers :
          (CallsApi(h) /\ W >= 1) =>
              LET prompt == messages'[h]
              IN  /\ Len(prompt) >= 2
                  /\ prompt[Len(prompt)].role = "user"
                  /\ prompt[Len(prompt)].content = update[h].text]_vars

\* The inbound message was the 2W+1st turn of its user, storing it cut the
\* history to W turns, and the prompt built from it holds those W turns
\* after the system entry, the message last.
C16_Witness ==
    \E h \in SeqHandlers :
        LET u == update[h].user_id
        IN  /\ pc[h] = "notice"
            /\ W = MaxWindow
            /\ Len(all_turns[u]) = 2 * W + 1
            /\ Len(HistoryOf(u)) = W
            /\ Len(messages[h]) = 1 + W
            /\ messages[h][1 + W] = Message("user", update[h].text)
            /\ all_turns[u][2 * W].role = "assistant"

====
